---- MODULE Spec2Model ----
(***************************************************************************)
(* A model of app.py, the Quran sync service: the 24-hour file cache, the  *)
(* retrying API client, the partitioned surah tables and the batch sync    *)
(* fetch_and_save_all_data.                                                *)
(*                                                                         *)
(* Time is counted in hours.  A JSON document is a record                  *)
(*   [code, shape, items]                                                  *)
(* where shape tells what the document holds under "data":                 *)
(*   "none"  no "data" key          "meta"  data.surahs = items            *)
(*   "list"  data = items (a list)  "surah" data.ayahs  = items            *)
(*   "null"  Python's None                                                 *)
(***************************************************************************)
EXTENDS Integers, Sequences, FiniteSets, TLC

VARIABLES
    cache,    \* the cache directory: key -> NoEntry or [mtime, text]
    now,      \* the wall clock, in hours
    saved,    \* history: per test key, the latest save_to_cache call and whether its write succeeded
    db,       \* the database: which tables exist and their committed rows
    call,     \* the latest fetch_from_api call: what the server served and what the call did
    ret,      \* what the operation that ran last returned
    pc,       \* fetch_and_save_all_data: where the running call is
    surahs,   \* fetch_and_save_all_data: its local list of surahs
    idx,      \* fetch_and_save_all_data: the loop's position in surahs (1-based)
    trace,    \* fetch_and_save_all_data: what each finished loop iteration did
    faults    \* how many failures the environment has injected so far

vars == <<cache, now, saved, db, call, ret, pc, surahs, idx, trace, faults>>

----------------------------------------------------------------------------
(* Program constants *)

CACHE_DURATION == 24
SURAHS_PER_TABLE == 50
total_surahs == 114
retries == 3
initial_retry_delay == 2

(* Bounds of the model *)

MaxTime == 48        \* the clock stops here
TickHours == 12      \* the clock advances in steps of this many hours
MaxListLen == 2      \* longest surah list handed to save_surahs_to_db on its own
MaxBatch == 11       \* longest surah list the API serves to the batch
MaxFaults == 1       \* failures the environment injects in the batch specification

----------------------------------------------------------------------------
(* JSON documents and their text form *)

Json(code, shape, items) == [code |-> code, shape |-> shape, items |-> items]

None == Json(0, "null", <<>>)

\* Python truthiness of a parsed document: None and {} are falsy.
Truthy(j) == j.shape # "null"

\* json.dump: the text written for a document; a write that fails midway
\* leaves a truncated text that does not parse.
json_dump(data) ==
    [head |-> data.code, body |-> <<data.shape, data.items>>, closed |-> TRUE]

Truncated(text) == [text EXCEPT !.closed = FALSE]

Parses(text) == text.closed

\* json.load of a text that parses.
json_load(text) == Json(text.head, text.body[1], text.body[2])

----------------------------------------------------------------------------
(* The file cache *)

NoEntry == [mtime |-> -1, text |-> Truncated(json_dump(None))]

NoSave == [at |-> -1, data |-> None, ok |-> FALSE]

\* A bug: an entry aged exactly CACHE_DURATION still counts as fresh.
Fresh_inclusive(entry, t) == t - entry.mtime <= CACHE_DURATION

Fresh(entry, t) == t - entry.mtime < CACHE_DURATION

\* get_cached_data: the value returned for the entry of a key at time t;
\* ioerr says that opening or reading the file fails.
cached_value(entry, t, ioerr) ==
    IF entry # NoEntry
    THEN IF Fresh(entry, t)
         THEN IF ~ioerr /\ Parses(entry.text)
              THEN json_load(entry.text)
              ELSE None
         ELSE None
    ELSE None

get_cached_data(c, key, t, ioerr) == cached_value(c[key], t, ioerr)

\* save_to_cache: the cache after the call.  fault is "none", "open" (the file
\* cannot be opened: nothing changes) or "write" (json.dump fails after the
\* file was truncated); the exception is logged and swallowed either way.
\* A bug: an existing file is never overwritten.
written_entry_keeps_old(old, data, t, fault) ==
    IF old # [mtime |-> -1, text |-> Truncated(json_dump(None))] THEN old
    ELSE IF fault = "open" THEN old
    ELSE IF fault = "write" THEN [mtime |-> t, text |-> Truncated(json_dump(data))]
    ELSE [mtime |-> t, text |-> json_dump(data)]

written_entry(old, data, t, fault) ==
    IF fault = "open" THEN old
    ELSE IF fault = "write" THEN [mtime |-> t, text |-> Truncated(json_dump(data))]
    ELSE [mtime |-> t, text |-> json_dump(data)]

save_to_cache(c, key, data, t, fault) ==
    [c EXCEPT ![key] = written_entry(c[key], data, t, fault)]

WriteFaults == {"none", "open", "write"}

----------------------------------------------------------------------------
(* The API client *)

Ok(body) == [kind |-> "ok", body |-> body]
Timeout == [kind |-> "timeout", body |-> None]
NetworkError == [kind |-> "neterr", body |-> None]
HTTPStatus == [kind |-> "http", body |-> None]

\* A bug: raise_for_status is not called, so a 4xx/5xx response does not raise.
RaisesOnTransportOnly(outcome) == outcome.kind \in {"timeout", "neterr"}

\* requests.get raises on a timeout or a transport error, raise_for_status on
\* a 4xx/5xx response: all three are requests.exceptions.RequestException.
RaisesRequestException(outcome) == outcome.kind \in {"timeout", "neterr", "http"}

Get(endpoint) == [op |-> "get", endpoint |-> endpoint, secs |-> 0]
Sleep(endpoint, secs) == [op |-> "sleep", endpoint |-> endpoint, secs |-> secs]

\* A bug: the loop gives up one attempt early.
may_retry_one_short(attempt) == attempt < retries - 2

\* A bug: the delay is not doubled.
next_delay_constant(retry_delay) == retry_delay

\* May the loop sleep and go round again after a failed attempt?
may_retry(attempt) == attempt < retries - 1

\* The delay before the next attempt, after a sleep of retry_delay.
next_delay(retry_delay) == retry_delay * 2

\* The for loop of fetch_from_api from the given attempt (0-based) on; outs[i]
\* is what the server does to the i-th request.
RECURSIVE attempt_loop(_, _, _, _, _)
attempt_loop(endpoint, attempt, retry_delay, outs, log) ==
    IF attempt >= retries
    THEN [raised |-> FALSE, json |-> None, log |-> log]
    ELSE LET requested == Append(log, Get(endpoint))
             outcome == outs[attempt + 1]
         IN  IF ~RaisesRequestException(outcome)
             THEN [raised |-> FALSE, json |-> outcome.body, log |-> requested]
             ELSE IF may_retry(attempt)
                  THEN attempt_loop(endpoint, attempt + 1, next_delay(retry_delay), outs,
                                    Append(requested, Sleep(endpoint, retry_delay)))
                  ELSE [raised |-> TRUE, json |-> None, log |-> requested]

fetch_from_api(endpoint, outs) ==
    attempt_loop(endpoint, 0, initial_retry_delay, outs, <<>>)

----------------------------------------------------------------------------
(* The database *)

\* math.ceil(a / b) for b > 0.
ceil_div(a, b) == -((-a) \div b)

\* A bug: floor division plus one, which moves every multiple of 50 up a table.
get_partition_floor(surah_number) == (surah_number \div SURAHS_PER_TABLE) + 1

get_partition_for_surah(surah_number) == ceil_div(surah_number, SURAHS_PER_TABLE)

get_partition_for_verse(surah_number) == get_partition_for_surah(surah_number)

num_surah_partitions == ceil_div(total_surahs, SURAHS_PER_TABLE)

Partitions == 1 .. num_surah_partitions

EmptyDb ==
    [initialized |-> FALSE,
     editions    |-> {},
     surahs      |-> [p \in Partitions |-> {}],
     verses      |-> {},
     translated  |-> {}]

\* initialize_database: CREATE TABLE IF NOT EXISTS for editions and for every
\* partition; dbfail is a failure of the connection or of a statement.
initialize_database(d, dbfail) ==
    IF dbfail
    THEN [ok |-> FALSE, db |-> d]
    ELSE [ok |-> TRUE, db |-> [d EXCEPT !.initialized = TRUE]]

\* The table surahs_p<partition> / verses_p<partition> exists.
table_exists(d, partition) == d.initialized /\ partition \in Partitions

Range(seq) == {seq[i] : i \in 1 .. Len(seq)}

\* One INSERT ... ON CONFLICT DO UPDATE cannot touch the same row twice.
has_duplicates(values) ==
    \E i, j \in 1 .. Len(values) : i < j /\ values[i] = values[j]

\* partition_data[partition] of save_surahs_to_db: the numbers of the list that
\* fall into the partition, in list order.
RECURSIVE partition_values(_, _)
partition_values(list, partition) ==
    IF list = <<>> THEN <<>>
    ELSE IF get_partition_for_surah(Head(list)) = partition
         THEN <<Head(list)>> \o partition_values(Tail(list), partition)
         ELSE partition_values(Tail(list), partition)

partitions_of(list) == {get_partition_for_surah(list[i]) : i \in 1 .. Len(list)}

\* Can the INSERT into the partition's table succeed?
insert_succeeds(d, list, partition) ==
    /\ table_exists(d, partition)
    /\ ~has_duplicates(partition_values(list, partition))

\* save_surahs_to_db: one transaction over all partitions, committed at the
\* end and rolled back as a whole when any INSERT fails.  A surah is its number.
save_surahs_to_db(d, list, dbfail) ==
    IF list = <<>> THEN [ok |-> FALSE, db |-> d]
    ELSE IF dbfail THEN [ok |-> FALSE, db |-> d]
    ELSE IF \E p \in partitions_of(list) : ~insert_succeeds(d, list, p)
         THEN [ok |-> FALSE, db |-> d]
    ELSE [ok |-> TRUE,
          db |-> [d EXCEPT !.surahs =
                    [p \in Partitions |-> d.surahs[p] \cup Range(partition_values(list, p))]]]

\* save_editions_to_db.  An edition is its identifier.
save_editions_to_db(d, editions, dbfail) ==
    IF editions = <<>> THEN [ok |-> FALSE, db |-> d]
    ELSE IF dbfail \/ ~d.initialized \/ has_duplicates(editions)
         THEN [ok |-> FALSE, db |-> d]
    ELSE [ok |-> TRUE, db |-> [d EXCEPT !.editions = @ \cup Range(editions)]]

\* save_verses_to_db.  A verse is its numberInSurah; a row is <<surah, verse>>.
save_verses_to_db(d, surah_number, verses, dbfail) ==
    IF verses = <<>> THEN [ok |-> FALSE, db |-> d]
    ELSE IF \/ dbfail
            \/ ~table_exists(d, get_partition_for_verse(surah_number))
            \/ has_duplicates(verses)
         THEN [ok |-> FALSE, db |-> d]
    ELSE [ok |-> TRUE,
          db |-> [d EXCEPT !.verses = @ \cup {<<surah_number, verses[i]>> : i \in 1 .. Len(verses)}]]

\* save_translations_to_db: one UPDATE per verse, which changes only rows that
\* exist; a failing UPDATE is counted and skipped, then the rest is committed.
save_translations_to_db(d, surah_number, translations, dbfail) ==
    IF translations = <<>> THEN [ok |-> FALSE, db |-> d]
    ELSE IF dbfail THEN [ok |-> FALSE, db |-> d]
    ELSE IF ~table_exists(d, get_partition_for_verse(surah_number))
         THEN [ok |-> TRUE, db |-> d]
    ELSE [ok |-> TRUE,
          db |-> [d EXCEPT !.translated =
                    @ \cup {r \in d.verses :
                              /\ r[1] = surah_number
                              /\ \E i \in 1 .. Len(translations) : r[2] = translations[i]}]]

----------------------------------------------------------------------------
(* The cached fetches.  env is what the environment does during the call:    *)
(* ioerr (the cache file cannot be read), outs (the server's answers to the  *)
(* requests of the first fetch_from_api call), outs2 (to those of a second   *)
(* call) and fault (what goes wrong in save_to_cache).                       *)

Key(name, n) == <<name, n>>
Endpoint(name, n) == <<name, n>>
EditionsKey == Key("editions", 0)
SurahsKey == Key("surahs", 0)

\* response.get("code") == 200 and "data" in response
has_data(response) == response.code = 200 /\ response.shape # "none"

\* The call raised, or response is None and response.get raises.
threw(r) == r.raised \/ r.json = None

fetch_all_editions(c, t, env) ==
    LET cached == get_cached_data(c, EditionsKey, t, env.ioerr)
        r == fetch_from_api(Endpoint("edition", 0), env.outs)
    IN  IF Truthy(cached)
        THEN [value |-> IF cached.shape = "list" THEN cached.items ELSE <<>>,
              cache |-> c, log |-> <<>>]
        ELSE IF ~threw(r) /\ has_data(r.json)
             THEN [value |-> r.json.items,
                   cache |-> save_to_cache(c, EditionsKey, r.json, t, env.fault),
                   log |-> r.log]
             ELSE [value |-> <<>>, cache |-> c, log |-> r.log]

\* The three cached formats fetch_all_surahs accepts: data.surahs and a list
\* under data (a top-level "surahs" key is a shape the API never serves).
cached_surahs_usable(cached) == Truthy(cached) /\ cached.shape \in {"meta", "list"}

\* Is the "surah" list endpoint asked after this answer of the "meta" endpoint?
falls_back_to_surah(meta) == ~threw(meta) /\ ~(has_data(meta.json) /\ meta.json.shape = "meta")

fetch_all_surahs(c, t, env) ==
    LET cached == get_cached_data(c, SurahsKey, t, env.ioerr)
        meta == fetch_from_api(Endpoint("meta", 0), env.outs)
        list == fetch_from_api(Endpoint("surah", 0), env.outs2)
    IN  IF cached_surahs_usable(cached)
        THEN [value |-> cached.items, cache |-> c, log |-> <<>>]
        ELSE IF ~threw(meta) /\ has_data(meta.json) /\ meta.json.shape = "meta"
             THEN [value |-> meta.json.items,
                   cache |-> save_to_cache(c, SurahsKey, meta.json, t, env.fault),
                   log |-> meta.log]
        ELSE IF ~falls_back_to_surah(meta)
             THEN [value |-> <<>>, cache |-> c, log |-> meta.log]
        ELSE IF ~threw(list) /\ has_data(list.json)
             THEN [value |-> list.json.items,
                   cache |-> save_to_cache(c, SurahsKey, list.json, t, env.fault),
                   log |-> meta.log \o list.log]
        ELSE [value |-> <<>>, cache |-> c, log |-> meta.log \o list.log]

\* The endpoint "surah/<number>/<edition>" without its number.
edition_path(name) ==
    IF name = "surah" THEN "surah/quran-uthmani" ELSE "surah/en.asad"

\* A bug: no try/except around the request, so a failed request leaves the
\* function as an exception.
fetch_surah_unguarded(name, c, surah_number, t, env) ==
    LET cached == get_cached_data(c, Key(name, surah_number), t, env.ioerr)
        r == fetch_from_api(Endpoint(edition_path(name), surah_number), env.outs)
    IN  IF Truthy(cached) /\ cached.shape # "none"
        THEN [value |-> cached, cache |-> c, log |-> <<>>, propagates |-> FALSE]
        ELSE IF ~threw(r) /\ has_data(r.json)
             THEN [value |-> r.json,
                   cache |-> save_to_cache(c, Key(name, surah_number), r.json, t, env.fault),
                   log |-> r.log, propagates |-> FALSE]
             ELSE [value |-> None, cache |-> c, log |-> r.log, propagates |-> threw(r)]

\* fetch_surah_content and fetch_surah_translation differ in the cache key
\* and the edition only.  The value is the document whose data is returned,
\* None for {}; propagates says whether an exception leaves the function.
fetch_surah(name, c, surah_number, t, env) ==
    LET cached == get_cached_data(c, Key(name, surah_number), t, env.ioerr)
        r == fetch_from_api(Endpoint(edition_path(name), surah_number), env.outs)
    IN  IF Truthy(cached) /\ cached.shape # "none"
        THEN [value |-> cached, cache |-> c, log |-> <<>>, propagates |-> FALSE]
        ELSE IF ~threw(r) /\ has_data(r.json)
             THEN [value |-> r.json,
                   cache |-> save_to_cache(c, Key(name, surah_number), r.json, t, env.fault),
                   log |-> r.log, propagates |-> FALSE]
             ELSE [value |-> None, cache |-> c, log |-> r.log, propagates |-> FALSE]

fetch_surah_content(c, surah_number, t, env) == fetch_surah("surah", c, surah_number, t, env)

fetch_surah_translation(c, surah_number, t, env) ==
    fetch_surah("translation", c, surah_number, t, env)

\* arabic_content and "ayahs" in arabic_content
has_ayahs(content) == Truthy(content) /\ content.shape = "surah"

----------------------------------------------------------------------------
(* What the environment can do *)

BadBody == Json(400, "none", <<>>)

Prefix(n) == [i \in 1 .. n |-> i]

\* The surah lists the API serves: none, two, a long one, and one whose only
\* surah has no number (surah.get("number", 0)).
ServedLists == {Prefix(0), Prefix(2), Prefix(MaxBatch), <<0>>}

Ayahs == <<1, 2>>

Bodies(name) ==
    IF name = "edition" THEN {Json(200, "list", <<1, 2>>), Json(200, "list", <<>>), BadBody}
    ELSE IF name = "meta" THEN {Json(200, "meta", l) : l \in ServedLists} \cup {BadBody}
    ELSE IF name = "list" THEN {Json(200, "list", l) : l \in ServedLists} \cup {BadBody}
    ELSE {Json(200, "surah", Ayahs), Json(200, "surah", <<>>), BadBody}

Always(outcome) == [i \in 1 .. retries |-> outcome]

\* What a server does to the requests of one call: it answers at once, it
\* answers after two failures, or it never answers.
Served(bodies) ==
    {Always(Ok(b)) : b \in bodies}
    \cup {<<HTTPStatus, NetworkError, Ok(b)>> : b \in bodies}
    \cup {<<Timeout, NetworkError, HTTPStatus>>}

\* A failure of the environment: anything but a prompt answer with data, and
\* a surah served without ayahs.
failing(outs) ==
    \/ outs[1].kind # "ok"
    \/ ~has_data(outs[1].body)
    \/ (outs[1].body.shape = "surah" /\ outs[1].body.items = <<>>)

Cost(b) == IF b THEN 1 ELSE 0

env_cost(env) ==
    Cost(env.ioerr) + Cost(failing(env.outs)) + Cost(failing(env.outs2))
    + Cost(env.fault # "none")

Envs(served, served2) ==
    [ioerr : BOOLEAN, outs : served, outs2 : served2, fault : WriteFaults]

Unasked == {Always(Ok(Json(200, "list", <<>>)))}

\* The environments of one step that the fault budget still allows.
Allowed(envs, spent) == {e \in envs : spent + env_cost(e) <= MaxFaults}

----------------------------------------------------------------------------
(* The state *)

BatchNumbers == 0 .. MaxBatch

CacheKeys ==
    {EditionsKey, SurahsKey}
    \cup {Key(name, n) : name \in {"surah", "translation"}, n \in BatchNumbers}

\* The keys the cache is exercised with on its own.
TestKeys == {EditionsKey, SurahsKey}

NoCall == [endpoint |-> Endpoint("", 0), outs |-> <<>>, raised |-> FALSE,
           json |-> None, log |-> <<>>]

Idle ==
    [op |-> "", key |-> Key("", 0), value |-> None, list |-> <<>>, ioerr |-> FALSE,
     ok |-> FALSE, status |-> "", message |-> "", log |-> <<>>, served |-> <<>>]

Returned(op) == [Idle EXCEPT !.op = op]

Init ==
    /\ cache = [k \in CacheKeys |-> NoEntry]
    /\ now = 0
    /\ saved = [k \in TestKeys |-> NoSave]
    /\ db = EmptyDb
    /\ call = NoCall
    /\ ret = Idle
    /\ pc = "idle"
    /\ surahs = <<>>
    /\ idx = 1
    /\ trace = <<>>
    /\ faults = 0

\* Time passes.
Tick ==
    /\ now + TickHours <= MaxTime
    /\ now' = now + TickHours
    /\ ret' = Idle
    /\ UNCHANGED <<cache, saved, db, call, pc, surahs, idx, trace, faults>>

----------------------------------------------------------------------------
(* fetch_from_api on its own *)

Outcomes == {Ok(Json(200, "list", <<1>>)), Ok(BadBody), Timeout, NetworkError, HTTPStatus}

Endpoints == {Endpoint("meta", 0), Endpoint("surah", 0), Endpoint("surah/quran-uthmani", 1)}

Do_fetch_from_api ==
    \E endpoint \in Endpoints, outs \in [1 .. retries -> Outcomes] :
        LET r == fetch_from_api(endpoint, outs)
        IN  /\ call' = [endpoint |-> endpoint, outs |-> outs, raised |-> r.raised,
                        json |-> r.json, log |-> r.log]
            /\ ret' = [Returned("fetch_from_api") EXCEPT !.value = r.json, !.ok = ~r.raised]
            /\ UNCHANGED <<cache, now, saved, db, pc, surahs, idx, trace, faults>>

NextFetch == Do_fetch_from_api

SpecFetch == Init /\ [][NextFetch]_vars

----------------------------------------------------------------------------
(* The cache on its own *)

TestData == {Json(200, "list", <<1, 2>>), Json(200, "meta", <<2, 1>>)}

Do_save_to_cache ==
    \E key \in TestKeys, data \in TestData, fault \in WriteFaults :
        /\ cache' = save_to_cache(cache, key, data, now, fault)
        /\ saved' = [saved EXCEPT ![key] = [at |-> now, data |-> data, ok |-> fault = "none"]]
        /\ ret' = [Returned("save_to_cache") EXCEPT !.key = key]
        /\ UNCHANGED <<now, db, call, pc, surahs, idx, trace, faults>>

Do_get_cached_data ==
    \E key \in TestKeys, ioerr \in BOOLEAN :
        /\ ret' = [Returned("get_cached_data") EXCEPT
                     !.key = key, !.ioerr = ioerr,
                     !.value = get_cached_data(cache, key, now, ioerr)]
        /\ UNCHANGED <<cache, now, saved, db, call, pc, surahs, idx, trace, faults>>

NextCache == Do_save_to_cache \/ Do_get_cached_data \/ Tick

SpecCache == Init /\ [][NextCache]_vars

----------------------------------------------------------------------------
(* Claims about fetch_from_api (SpecFetch) *)

Called == call # NoCall

\* The HTTP attempts and the sleeps of the latest call, in order.
Attempts == SelectSeq(call.log, LAMBDA e : e.op = "get")
Sleeps == SelectSeq(call.log, LAMBDA e : e.op = "sleep")

Failed(i) == call.outs[i].kind # "ok"

\* C1: a fetch_from_api call makes at least one and at most 3 HTTP attempts;
\* when it returns, it returns the JSON of the first attempt that succeeded
\* and that attempt is the last thing it did; it raises only after 3 attempts
\* that all failed; and it never returns without a response or a raised error.
C1_BoundedAttempts ==
    Called =>
        /\ Len(Attempts) \in 1 .. 3
        /\ ~call.raised =>
              /\ ~Failed(Len(Attempts))
              /\ \A i \in 1 .. Len(Attempts) - 1 : Failed(i)
              /\ call.json = call.outs[Len(Attempts)].body
              /\ call.log[Len(call.log)].op = "get"
              /\ call.json # None
        /\ call.raised =>
              /\ Len(Attempts) = 3
              /\ \A i \in 1 .. 3 : Failed(i)

\* C1 witness: a call that failed once, was retried and then returned the
\* second attempt's JSON.
C1_Witness ==
    /\ Called /\ ~call.raised /\ Len(Attempts) = 2
    /\ Failed(1) /\ call.json = call.outs[2].body

\* C2 as stated: a timeout or a network error is retried, but an attempt that
\* received an HTTP error status is the last attempt of the call.
C2_HttpErrorNotRetried ==
    Called =>
        \A i \in 1 .. Len(Attempts) :
            /\ (call.outs[i].kind \in {"timeout", "neterr"} /\ i < 3) => Len(Attempts) > i
            /\ call.outs[i].kind = "http" => Len(Attempts) = i

\* C2 amended: an attempt that ended in a timeout, a network error or an
\* HTTP error status alike is retried while attempts are left; an HTTP error
\* status ends the call only as the outcome of the third attempt, and then
\* the call raises.
C2_HttpErrorRetried ==
    Called =>
        \A i \in 1 .. Len(Attempts) :
            /\ (call.outs[i].kind \in {"timeout", "neterr", "http"} /\ i < 3)
                  => Len(Attempts) > i
            /\ (call.outs[i].kind = "http" /\ Len(Attempts) = i) => (i = 3 /\ call.raised)

\* C2 witness: the first attempt received an HTTP error status and the call
\* went on to a second attempt, whose JSON it returned.
C2_Witness ==
    /\ Called /\ call.outs[1].kind = "http" /\ Len(Attempts) = 2 /\ ~call.raised

\* C9: the call sleeps exactly between consecutive attempts, 2 seconds before
\* the second attempt and 4 seconds before the third, never less than 1
\* second, and never after the final failed attempt or after a success.
C9_Backoff ==
    Called =>
        /\ Len(Sleeps) = Len(Attempts) - 1
        /\ \A i \in 1 .. Len(call.log) :
              call.log[i].op = (IF i % 2 = 1 THEN "get" ELSE "sleep")
        /\ \A i \in 1 .. Len(Sleeps) : Sleeps[i].secs >= 1
        /\ Len(Sleeps) >= 1 => Sleeps[1].secs = 2
        /\ Len(Sleeps) >= 2 => Sleeps[2].secs = 4

\* C9 witness: a call that slept twice, before its second and third attempt.
C9_Witness == Called /\ Len(Sleeps) = 2 /\ Len(Attempts) = 3

----------------------------------------------------------------------------
(* Claims about the cache (SpecCache) *)

GotData == ret.op = "get_cached_data" /\ ret.value # None

\* C3: get_cached_data(key) returns data only when an entry for key exists,
\* its age is strictly less than 24 hours and it can be read, and then the
\* data is what the entry holds; in every other case it returns None.
C3_NoExpiredData ==
    ret.op = "get_cached_data" =>
        LET entry == cache[ret.key]
            usable == /\ entry # NoEntry
                      /\ now - entry.mtime < 24
                      /\ ~ret.ioerr /\ Parses(entry.text)
        IN  /\ ret.value # None => usable
            /\ usable => ret.value = json_load(entry.text)

\* C3 witnesses: a read that returned data, and (the case the claim is about)
\* a read of an entry aged exactly 24 hours.
C3_Witness == GotData /\ now - cache[ret.key].mtime = 12

C3_WitnessExpired ==
    /\ ret.op = "get_cached_data" /\ cache[ret.key] # NoEntry
    /\ Parses(cache[ret.key].text) /\ ~ret.ioerr
    /\ now - cache[ret.key].mtime = 24

----------------------------------------------------------------------------
(* The surah tables on their own *)

\* Surah numbers on both sides of every partition boundary, a surah without a
\* number (0), a negative one and one past the last table.
SurahNumbers == {-1, 0, 1, 50, 51, 100, 101, 150, 151}

RECURSIVE ListsUpTo(_, _)
ListsUpTo(S, n) ==
    IF n = 0 THEN {<<>>}
    ELSE LET shorter == ListsUpTo(S, n - 1)
         IN  shorter \cup {Append(l, x) : l \in shorter, x \in S}

Do_initialize_database ==
    \E dbfail \in BOOLEAN :
        LET r == initialize_database(db, dbfail)
        IN  /\ db' = r.db
            /\ ret' = [Returned("initialize_database") EXCEPT !.ok = r.ok]
            /\ UNCHANGED <<cache, now, saved, call, pc, surahs, idx, trace, faults>>

Do_save_surahs_to_db ==
    \E list \in ListsUpTo(SurahNumbers, MaxListLen), dbfail \in BOOLEAN :
        LET r == save_surahs_to_db(db, list, dbfail)
        IN  /\ db' = r.db
            /\ ret' = [Returned("save_surahs_to_db") EXCEPT !.ok = r.ok]
            /\ UNCHANGED <<cache, now, saved, call, pc, surahs, idx, trace, faults>>

NextTables == Do_initialize_database \/ Do_save_surahs_to_db

SpecTables == Init /\ [][NextTables]_vars

\* C8: every partition table surahs_p<k> holds only surahs whose number n
\* satisfies 50*(k-1) < n <= 50*k, hence at most 50 of them, and no surah
\* number is in two partition tables.
C8_PartitionRanges ==
    /\ \A k \in DOMAIN db.surahs :
          /\ \A n \in db.surahs[k] : 50 * (k - 1) < n /\ n <= 50 * k
          /\ Cardinality(db.surahs[k]) <= 50
    /\ \A k1, k2 \in DOMAIN db.surahs :
          k1 # k2 => db.surahs[k1] \cap db.surahs[k2] = {}

\* C8 witness: saves have committed the surahs on the two sides of every
\* partition boundary, each into its table.
C8_Witness ==
    /\ ret.op = "save_surahs_to_db" /\ ret.ok
    /\ db.surahs[1] = {1, 50} /\ db.surahs[2] = {51, 100} /\ db.surahs[3] = {101, 150}

----------------------------------------------------------------------------
(* fetch_all_surahs on its own *)

Do_fetch_all_surahs ==
    \E env \in Envs(Served(Bodies("meta")), Served(Bodies("list"))) :
        LET r == fetch_all_surahs(cache, now, env)
        IN  /\ cache' = r.cache
            /\ ret' = [Returned("fetch_all_surahs") EXCEPT
                         !.list = r.value, !.log = r.log, !.ioerr = env.ioerr,
                         !.served = env.outs]
            /\ UNCHANGED <<now, saved, db, call, pc, surahs, idx, trace, faults>>

NextSurahs == Do_fetch_all_surahs

SpecSurahs == Init /\ [][NextSurahs]_vars

Asked(name) == \E i \in 1 .. Len(ret.log) : ret.log[i] = Get(Endpoint(name, 0))

FirstAsked(name) == ret.log # <<>> /\ ret.log[1] = Get(Endpoint(name, 0))

\* The "meta" request failed after its retries: no attempt was answered.
MetaRequestFailed == \A i \in 1 .. 3 : ret.served[i].kind # "ok"

\* The "meta" endpoint answered with code 200 and data.surahs.
MetaSucceeded ==
    \E i \in 1 .. 3 :
        /\ \A j \in 1 .. i - 1 : ret.served[j].kind # "ok"
        /\ ret.served[i].kind = "ok"
        /\ ret.served[i].body.code = 200 /\ ret.served[i].body.shape = "meta"

\* C7: when fetch_all_surahs goes to the API, it asks "meta" first; if that
\* fails (the request fails after its retries, or the answer lacks code 200 or
\* data.surahs) it asks the "surah" list endpoint before it returns; and it
\* never asks "surah" when "meta" succeeded.
C7_SurahFallback ==
    (ret.op = "fetch_all_surahs" /\ ret.log # <<>>) =>
        /\ FirstAsked("meta")
        /\ ~MetaSucceeded => Asked("surah")
        /\ MetaSucceeded => ~Asked("surah")

\* The part of C7 that the code keeps: "meta" first, "surah" after an answer
\* of "meta" that lacks code 200 or data.surahs, never after a good one.
C7_FallbackOnMalformed ==
    (ret.op = "fetch_all_surahs" /\ ret.log # <<>>) =>
        /\ FirstAsked("meta")
        /\ (~MetaSucceeded /\ ~MetaRequestFailed) => Asked("surah")
        /\ MetaSucceeded => ~Asked("surah")
        /\ MetaRequestFailed => (~Asked("surah") /\ ret.list = <<>>)

----------------------------------------------------------------------------
(* fetch_and_save_all_data, step by step.  pc is "idle" between calls, then  *)
(* "editions", "surahs", and "content" / "translation" inside the loop.      *)

Running == Returned("running")

Result(status, message) ==
    [Returned("fetch_and_save_all_data") EXCEPT !.status = status, !.message = message]

Success == Result("success", "All Quran data has been fetched and saved to the database")

\* A bug: the loop stops after ten surahs.
loop_done_capped(i, list) == i > Len(list) \/ i > 10

\* for surah in surahs: is the loop over?
loop_done(i, list) == i > Len(list)

NoStep == [log |-> <<>>, cached |-> FALSE, fetched |-> FALSE, saved |-> FALSE]

\* One environment for a call that asks one endpoint.
Envs1(bodies) == Envs(Served(bodies), Unasked)

\* The cache a finished sync of the surahs 1 and 2 left behind at time 0.
WarmCache ==
    [k \in CacheKeys |->
        IF k = EditionsKey THEN [mtime |-> 0, text |-> json_dump(Json(200, "list", <<1, 2>>))]
        ELSE IF k = SurahsKey THEN [mtime |-> 0, text |-> json_dump(Json(200, "meta", Prefix(2)))]
        ELSE IF k[2] \in {1, 2} THEN [mtime |-> 0, text |-> json_dump(Json(200, "surah", Ayahs))]
        ELSE NoEntry]

\* One call of fetch_and_save_all_data, on an empty database, with an empty
\* cache or with the cache of an earlier sync.
InitBatch ==
    /\ cache \in {[k \in CacheKeys |-> NoEntry], WarmCache}
    /\ now = 0
    /\ saved = [k \in TestKeys |-> NoSave]
    /\ db = EmptyDb
    /\ call = NoCall
    /\ ret = Idle
    /\ pc = "idle"
    /\ surahs = <<>>
    /\ idx = 1
    /\ trace = <<>>
    /\ faults = 0

\* if not initialize_database(): return error
Batch_initialize ==
    /\ pc = "idle"
    /\ ret = Idle
    /\ \E dbfail \in BOOLEAN :
        LET r == initialize_database(db, dbfail)
        IN  /\ faults + Cost(dbfail) <= MaxFaults
            /\ faults' = faults + Cost(dbfail)
            /\ db' = r.db
            /\ surahs' = <<>> /\ idx' = 1 /\ trace' = <<>>
            /\ IF r.ok
               THEN pc' = "editions" /\ ret' = Running
               ELSE pc' = "idle" /\ ret' = Result("error", "Failed to initialize database")
            /\ UNCHANGED <<cache, now, saved, call>>

\* editions = fetch_all_editions(); if not save_editions_to_db(editions): return error
Batch_editions ==
    /\ pc = "editions"
    /\ \E env \in Allowed(Envs1(Bodies("edition")), faults), dbfail \in BOOLEAN :
        LET f == fetch_all_editions(cache, now, env)
            r == save_editions_to_db(db, f.value, dbfail)
        IN  /\ faults + env_cost(env) + Cost(dbfail) <= MaxFaults
            /\ faults' = faults + env_cost(env) + Cost(dbfail)
            /\ cache' = f.cache
            /\ db' = r.db
            /\ IF r.ok
               THEN pc' = "surahs" /\ ret' = Running
               ELSE pc' = "idle" /\ ret' = Result("error", "Failed to save editions to database")
            /\ UNCHANGED <<now, saved, call, surahs, idx, trace>>

\* surahs = fetch_all_surahs(); if not save_surahs_to_db(surahs): return error
Batch_surahs ==
    /\ pc = "surahs"
    /\ \E env \in Allowed(Envs(Served(Bodies("meta")), Served(Bodies("list"))), faults), dbfail \in BOOLEAN :
        LET f == fetch_all_surahs(cache, now, env)
            r == save_surahs_to_db(db, f.value, dbfail)
        IN  /\ faults + env_cost(env) + Cost(dbfail) <= MaxFaults
            /\ faults' = faults + env_cost(env) + Cost(dbfail)
            /\ cache' = f.cache
            /\ db' = r.db
            /\ surahs' = f.value
            /\ idx' = 1
            /\ IF r.ok
               THEN pc' = "content" /\ ret' = Running
               ELSE pc' = "idle" /\ ret' = Result("error", "Failed to save surahs to database")
            /\ UNCHANGED <<now, saved, call, trace>>

\* The first half of a loop iteration: fetch_surah_content, save_verses_to_db.
Batch_content ==
    /\ pc = "content"
    /\ ~loop_done(idx, surahs)
    /\ \E env \in Allowed(Envs1(Bodies("content")), faults), dbfail \in BOOLEAN :
        LET surah_number == surahs[idx]
            f == fetch_surah_content(cache, surah_number, now, env)
            r == IF has_ayahs(f.value)
                 THEN save_verses_to_db(db, surah_number, f.value.items, dbfail)
                 ELSE [ok |-> FALSE, db |-> db]
            step == [log |-> f.log, cached |-> f.log = <<>>,
                     fetched |-> has_ayahs(f.value), saved |-> r.ok]
        IN  /\ faults + env_cost(env) + Cost(dbfail) <= MaxFaults
            /\ faults' = faults + env_cost(env) + Cost(dbfail)
            /\ IF f.propagates
               THEN /\ pc' = "idle" /\ ret' = Result("error", "exception")
                    /\ UNCHANGED <<cache, db, trace>>
               ELSE /\ pc' = "translation" /\ ret' = Running
                    /\ cache' = f.cache
                    /\ db' = r.db
                    /\ trace' = Append(trace, [number |-> surah_number, content |-> step,
                                               translation |-> NoStep])
            /\ UNCHANGED <<now, saved, call, surahs, idx>>

\* The second half: fetch_surah_translation, save_translations_to_db, and on
\* to the next surah.
Batch_translation ==
    /\ pc = "translation"
    /\ \E env \in Allowed(Envs1(Bodies("translation")), faults), dbfail \in BOOLEAN :
        LET surah_number == surahs[idx]
            f == fetch_surah_translation(cache, surah_number, now, env)
            r == IF has_ayahs(f.value)
                 THEN save_translations_to_db(db, surah_number, f.value.items, dbfail)
                 ELSE [ok |-> FALSE, db |-> db]
            step == [log |-> f.log, cached |-> f.log = <<>>,
                     fetched |-> has_ayahs(f.value), saved |-> r.ok]
        IN  /\ faults + env_cost(env) + Cost(dbfail) <= MaxFaults
            /\ faults' = faults + env_cost(env) + Cost(dbfail)
            /\ IF f.propagates
               THEN /\ pc' = "idle" /\ ret' = Result("error", "exception")
                    /\ UNCHANGED <<cache, db, trace, idx>>
               ELSE /\ pc' = "content" /\ ret' = Running
                    /\ cache' = f.cache
                    /\ db' = r.db
                    /\ trace' = [trace EXCEPT ![Len(trace)].translation = step]
                    /\ idx' = idx + 1
            /\ UNCHANGED <<now, saved, call, surahs>>

\* return {"status": "success", ...}
Batch_return ==
    /\ pc = "content"
    /\ loop_done(idx, surahs)
    /\ pc' = "idle"
    /\ ret' = Success
    /\ UNCHANGED <<cache, now, saved, db, call, surahs, idx, trace, faults>>

NextBatch ==
    \/ Batch_initialize
    \/ Batch_editions
    \/ Batch_surahs
    \/ Batch_content
    \/ Batch_translation
    \/ Batch_return

SpecBatch == InitBatch /\ [][NextBatch]_vars

----------------------------------------------------------------------------
(* Claims about fetch_and_save_all_data (SpecBatch) *)

PreLoopErrors ==
    {"Failed to initialize database", "Failed to save editions to database",
     "Failed to save surahs to database"}

BatchReturned == ret.op = "fetch_and_save_all_data"

\* The call returned after it had entered the loop.
ReturnedFromLoop == BatchReturned /\ ret.message \notin PreLoopErrors

HasVerses(n) == \E r \in db.verses : r[1] = n

HasTranslations(n) == \E r \in db.translated : r[1] = n

InSurahTables(n) == \E k \in DOMAIN db.surahs : n \in db.surahs[k]

\* C5: whenever fetch_and_save_all_data returns status "success", the
\* editions, the surah metadata, and for every surah of the list its Arabic
\* verses and its translations are committed to the database.
C5_SuccessMeansAllSaved ==
    (BatchReturned /\ ret.status = "success") =>
        /\ db.editions # {}
        /\ \A i \in 1 .. Len(surahs) :
              /\ InSurahTables(surahs[i])
              /\ HasVerses(surahs[i])
              /\ HasTranslations(surahs[i])

\* The step of an iteration was taken: it hit the cache or asked the API.
Taken(step) == step.cached \/ step.log # <<>>

\* The step failed: the request failed after its retries, nothing usable was
\* served, or the save failed.
StepFailed(step) == Taken(step) /\ ~(step.fetched /\ step.saved)

\* C6: in the loop of fetch_and_save_all_data the failure of one surah's item
\* (its content fetch, its verse save or its translation step) does not abort
\* the loop: once in the loop the call returns only with "success", after both
\* steps were taken for every surah of the list in order, and what a step
\* saved is in the database.
C6_FailureIsolated ==
    /\ pc \in {"content", "translation"} => ret = Running
    /\ ReturnedFromLoop =>
          /\ ret = Success
          /\ Len(trace) = Len(surahs)
          /\ \A i \in 1 .. Len(trace) :
                /\ trace[i].number = surahs[i]
                /\ Taken(trace[i].content) /\ Taken(trace[i].translation)
                /\ trace[i].content.saved => HasVerses(surahs[i])
                /\ (trace[i].content.saved /\ trace[i].translation.saved)
                      => HasTranslations(surahs[i])

\* C6 witness: the content request of the first surah failed three times, and
\* the verses and translations of every later surah of an 11-surah list were
\* still fetched and saved.
C6_Witness ==
    /\ ReturnedFromLoop /\ Len(surahs) = 11 /\ Len(trace) = 11
    /\ Len(trace[1].content.log) = 5 /\ StepFailed(trace[1].content)
    /\ ~HasVerses(surahs[1])
    /\ \A i \in 2 .. 11 :
          /\ ~StepFailed(trace[i].content) /\ ~StepFailed(trace[i].translation)
          /\ HasVerses(surahs[i]) /\ HasTranslations(surahs[i])

\* The step asked the API for the surah (or had it in the cache).
AskedFor(step, name, n) ==
    \/ step.cached
    \/ step.log # <<>> /\ step.log[1] = Get(Endpoint(edition_path(name), n))

NoRequest(step) == \A i \in 1 .. Len(step.log) : step.log[i].op # "get"

====
